---- MODULE Spec2Model ----
(***************************************************************************)
(* Payout engine of the cancer-treatment calculator (src/app.py): the rule *)
(* tables, calc_payments, the per-year loop that threads one usage counter *)
(* per insurer through the years, and the aggregation run by the button.   *)
(*                                                                         *)
(* The source's Korean tags and clause names are written in ASCII here:    *)
(*   tags     surgery = su-sul, radiation = bang-sa-seon, chemo =          *)
(*            hang-am-yak-mul, hormone, heavy_ion = jung-ip-ja, imrt =     *)
(*            se-gi-jo-jeol, proton = yang-seong-ja, stereotactic =        *)
(*            jeong-wi-jeok, robot_surgery, targeted_covered,              *)
(*            targeted_noncovered, immune_covered, immune_noncovered,      *)
(*            icu = jung-hwan-ja-sil                                       *)
(*   clauses  major_treatment, thyroid_major, direct_treatment,            *)
(*            thyroid_direct, tertiary_direct, tertiary_thyroid_direct,    *)
(*            premium_direct, premium_class (Samsung); kb_major,           *)
(*            kb_minor_major, noncovered_major_II, noncovered_chemo_II     *)
(*            (KB); radiation_rider, chemo_rider, heavy_ion_rider (the     *)
(*            three names both catalogs hold)                              *)
(* A rate is a fraction <<numerator, denominator>>: 1.0 is <<1, 1>> and    *)
(* 0.5 is <<1, 2>>.  A usage counter is one dict whose keys are a clause   *)
(* or a (year, clause) pair: the key of a bare clause is written           *)
(* <<0, clause>> (no year is 0).                                           *)
(***************************************************************************)
EXTENDS Integers, Sequences, FiniteSets, TLC

VARIABLES
    pc,                        \* "loop", "button", "done" or "error"
    years,                     \* the slider's (first, last) year
    year,                      \* the loop variable: the year processed next
    insurance_amounts_samsung, \* clause -> subscribed amount
    insurance_amounts_kb,
    usage_counter_samsung,     \* the dict threaded through calc_payments
    usage_counter_kb,
    all_results_samsung,       \* sequence of <<year, total, details>>
    all_results_kb,
    session_state,             \* year -> the events selected for it
    visited_samsung,           \* the triples the last call went through
    visited_kb,
    grand_total_s,
    grand_total_k,
    rows,                      \* the table built by the button
    total_amount,              \* what save_pdf receives
    error                      \* the exception that ended the script

vars == <<pc, years, year, insurance_amounts_samsung, insurance_amounts_kb,
          usage_counter_samsung, usage_counter_kb, all_results_samsung,
          all_results_kb, session_state, visited_samsung, visited_kb,
          grand_total_s, grand_total_k, rows, total_amount, error>>

-----------------------------------------------------------------------------
(* Bounds of the model *)

\* the number of years the slider's range spans at most (Spec)
MaxSpan == 2

\* the last year of the long runs (SpecLong), one past the slider's maximum
LongYears == 11

\* the slider's limits
SliderMin == 1
SliderMax == 10

-----------------------------------------------------------------------------
(* Static tables *)

Full == <<1, 1>>
Half == <<1, 2>>

MAPPING_SAMSUNG ==
    [ surgery |-> << <<"major_treatment", 1, Full>>, <<"direct_treatment", 1, Full>>,
                     <<"tertiary_direct", 1, Full>> >>,
      radiation |-> << <<"major_treatment", 1, Full>>, <<"direct_treatment", 1, Full>>,
                       <<"tertiary_direct", 1, Full>>, <<"radiation_rider", 1, Full>> >>,
      chemo |-> << <<"major_treatment", 1, Full>>, <<"direct_treatment", 1, Full>>,
                   <<"tertiary_direct", 1, Full>>, <<"chemo_rider", 1, Full>> >>,
      hormone |-> << <<"direct_treatment", 1, Full>>, <<"tertiary_direct", 1, Full>> >>,
      heavy_ion |-> << <<"direct_treatment", 1, Full>>, <<"tertiary_direct", 1, Full>>,
                       <<"radiation_rider", 1, Full>>, <<"heavy_ion_rider", 1, Full>> >>,
      imrt |-> << <<"direct_treatment", 1, Full>>, <<"tertiary_direct", 1, Full>>,
                  <<"radiation_rider", 1, Full>>, <<"premium_direct", 1, Full>> >>,
      proton |-> << <<"direct_treatment", 1, Full>>, <<"tertiary_direct", 1, Full>>,
                    <<"radiation_rider", 1, Full>>, <<"premium_direct", 1, Full>> >>,
      stereotactic |-> << <<"direct_treatment", 1, Full>>, <<"tertiary_direct", 1, Full>>,
                          <<"radiation_rider", 1, Full>>, <<"premium_direct", 1, Full>> >>,
      robot_surgery |-> << <<"major_treatment", 1, Full>>, <<"direct_treatment", 1, Full>>,
                           <<"tertiary_direct", 1, Full>>, <<"premium_direct", 1, Full>>,
                           <<"premium_class", 1, Full>> >>,
      targeted_covered |-> << <<"major_treatment", 1, Full>>, <<"direct_treatment", 1, Full>>,
                              <<"tertiary_direct", 1, Full>>, <<"premium_direct", 1, Full>> >>,
      targeted_noncovered |-> << <<"major_treatment", 1, Full>>, <<"direct_treatment", 1, Full>>,
                                 <<"tertiary_direct", 1, Full>>, <<"premium_direct", 2, Full>>,
                                 <<"premium_class", 1, Full>> >>,
      immune_covered |-> << <<"major_treatment", 1, Full>>, <<"direct_treatment", 1, Full>>,
                            <<"tertiary_direct", 1, Full>>, <<"premium_direct", 2, Full>> >>,
      immune_noncovered |-> << <<"major_treatment", 1, Full>>, <<"direct_treatment", 1, Full>>,
                               <<"tertiary_direct", 1, Full>>, <<"premium_direct", 4, Full>>,
                               <<"premium_class", 2, Full>> >> ]

DEFAULT_AMOUNTS_SAMSUNG ==
    [ major_treatment |-> 0, thyroid_major |-> 0, direct_treatment |-> 0,
      thyroid_direct |-> 0, tertiary_direct |-> 0, tertiary_thyroid_direct |-> 0,
      premium_direct |-> 0, premium_class |-> 0, radiation_rider |-> 0,
      chemo_rider |-> 0, heavy_ion_rider |-> 0 ]

MAX_USAGE_SAMSUNG ==
    [ major_treatment |-> 50, thyroid_major |-> 50, direct_treatment |-> 10,
      thyroid_direct |-> 10, tertiary_direct |-> 10, tertiary_thyroid_direct |-> 10,
      premium_direct |-> 80, premium_class |-> 20, radiation_rider |-> 1,
      chemo_rider |-> 1, heavy_ion_rider |-> 1 ]

MAPPING_KB ==
    [ surgery |-> << <<"kb_major", 1, Full>> >>,
      robot_surgery |-> << <<"kb_major", 1, Full>>, <<"noncovered_major_II", 1, Full>> >>,
      targeted_covered |-> << <<"kb_major", 1, Full>>, <<"chemo_rider", 1, Full>> >>,
      targeted_noncovered |-> << <<"kb_major", 1, Full>>, <<"noncovered_major_II", 1, Full>>,
                                 <<"noncovered_chemo_II", 1, Full>>, <<"chemo_rider", 1, Full>> >>,
      immune_covered |-> << <<"kb_major", 1, Full>>, <<"chemo_rider", 1, Full>> >>,
      immune_noncovered |-> << <<"kb_major", 1, Full>>, <<"noncovered_major_II", 1, Full>>,
                               <<"noncovered_chemo_II", 1, Full>>, <<"chemo_rider", 1, Full>> >>,
      imrt |-> << <<"kb_major", 1, Full>>, <<"radiation_rider", 1, Full>> >>,
      proton |-> << <<"kb_major", 1, Full>>, <<"radiation_rider", 1, Full>> >>,
      stereotactic |-> << <<"kb_major", 1, Full>>, <<"radiation_rider", 1, Full>> >>,
      heavy_ion |-> << <<"kb_major", 1, Full>>, <<"noncovered_major_II", 1, Full>>,
                       <<"radiation_rider", 1, Full>>, <<"heavy_ion_rider", 1, Full>> >>,
      hormone |-> << <<"kb_major", 1, Full>> >>,
      icu |-> << <<"kb_major", 1, Half>> >> ]

DEFAULT_AMOUNTS_KB ==
    [ kb_major |-> 0, kb_minor_major |-> 0, noncovered_major_II |-> 0,
      noncovered_chemo_II |-> 0, radiation_rider |-> 0, chemo_rider |-> 0,
      heavy_ion_rider |-> 0 ]

MAX_USAGE_KB ==
    [ kb_major |-> 50, kb_minor_major |-> 50, noncovered_major_II |-> 10,
      noncovered_chemo_II |-> 10, radiation_rider |-> 1, chemo_rider |-> 1,
      heavy_ion_rider |-> 1 ]

\* the clauses calc_payments pays at most once a year
YEAR_EXCLUSIVE == {"noncovered_major_II", "direct_treatment", "tertiary_direct"}

-----------------------------------------------------------------------------
(* Python's dict and round *)

EmptyDict == [k \in {} |-> 0]

\* d.get(k, 0)
Get(d, k) == IF k \in DOMAIN d THEN d[k] ELSE 0

\* d[k] = v
Put(d, k, v) == IF k \in DOMAIN d THEN [d EXCEPT ![k] = v] ELSE (k :> v) @@ d

\* the key of a bare clause, and of a (year, clause) pair
LifeKey(treaty) == <<0, treaty>>
YearKey(y, treaty) == <<y, treaty>>

\* Python 3's round(n / d) for d > 0: to the nearest integer, a tie to the even one
round(n, d) ==
    LET q == n \div d
        r == n % d
    IN  IF 2 * r < d THEN q
        ELSE IF 2 * r > d THEN q + 1
        ELSE IF q % 2 = 0 THEN q ELSE q + 1

-----------------------------------------------------------------------------
(* calc_payments *)

\* the year's count compared with > where the code has >=
YearExclusiveHitOffByOne(usage_counter, y, treaty) ==
    /\ treaty \in YEAR_EXCLUSIVE
    /\ Get(usage_counter, YearKey(y, treaty)) > 1

\* line 433-435: a year-exclusive clause already paid this year
YearExclusiveHit(usage_counter, y, treaty) ==
    /\ treaty \in YEAR_EXCLUSIVE
    /\ Get(usage_counter, YearKey(y, treaty)) >= 1

\* the lifetime count compared with > where the code has >=
CapReachedOffByOne(usage_counter, MAX_USAGE, treaty) ==
    Get(usage_counter, LifeKey(treaty)) > MAX_USAGE[treaty]

\* line 436: the lifetime cap is reached (MAX_USAGE[treaty] exists)
CapReached(usage_counter, MAX_USAGE, treaty) ==
    Get(usage_counter, LifeKey(treaty)) >= MAX_USAGE[treaty]

\* int() without round(): the product cut towards zero
AmountTruncated(insurance_amounts, treaty, cnt, rate) ==
    LET n == Get(insurance_amounts, treaty) * cnt * rate[1]
    IN  IF n >= 0 THEN n \div rate[2] ELSE -((-n) \div rate[2])

\* the multiplier left out of the product
AmountNoCount(insurance_amounts, treaty, cnt, rate) ==
    round(Get(insurance_amounts, treaty) * rate[1], rate[2])

\* line 438: int(round(insurance_amounts.get(treaty, 0) * cnt * rate))
Amount(insurance_amounts, treaty, cnt, rate) ==
    round(Get(insurance_amounts, treaty) * cnt * rate[1], rate[2])

\* amt >= 0 where the code has amt > 0
PayableOrZero(amt) == amt >= 0

\* line 439: if amt > 0
Payable(amt) == amt > 0

\* the line item and the counters, the year's total left as it was
EmitNoTotal(acc, treaty, amt, y) ==
    [acc EXCEPT
        !.details = Append(@, <<treaty, amt>>),
        !.usage_counter =
            LET u1 == Put(@, LifeKey(treaty), Get(@, LifeKey(treaty)) + 1)
            IN  Put(u1, YearKey(y, treaty), Get(u1, YearKey(y, treaty)) + 1)]

\* the line item and the lifetime count, the year's count left as it was
EmitNoYearCount(acc, treaty, amt, y) ==
    [acc EXCEPT
        !.total = @ + amt,
        !.details = Append(@, <<treaty, amt>>),
        !.usage_counter = Put(@, LifeKey(treaty), Get(@, LifeKey(treaty)) + 1)]

\* line 440-443: the line item and both counters
Emit(acc, treaty, amt, y) ==
    [acc EXCEPT
        !.total = @ + amt,
        !.details = Append(@, <<treaty, amt>>),
        !.usage_counter =
            LET u1 == Put(@, LifeKey(treaty), Get(@, LifeKey(treaty)) + 1)
            IN  Put(u1, YearKey(y, treaty), Get(u1, YearKey(y, treaty)) + 1)]

\* what the call went through at one triple: the counts it found and whether it paid
Visit(acc, ev, triple, y, paid) ==
    [ev |-> ev, treaty |-> triple[1], cnt |-> triple[2], rate |-> triple[3],
     life |-> Get(acc.usage_counter, LifeKey(triple[1])),
     inyear |-> Get(acc.usage_counter, YearKey(y, triple[1])),
     paid |-> paid]

\* line 433-443: the body of the inner loop for one triple of event ev
ApplyTriple(acc, ev, triple, insurance_amounts, MAX_USAGE, y) ==
    LET treaty == triple[1]
        skip == [acc EXCEPT !.visited = Append(@, Visit(acc, ev, triple, y, FALSE))]
    IN  IF acc.error # "none" THEN acc
        ELSE IF YearExclusiveHit(acc.usage_counter, y, treaty) THEN skip
        ELSE IF treaty \notin DOMAIN MAX_USAGE THEN [acc EXCEPT !.error = "KeyError"]
        ELSE IF CapReached(acc.usage_counter, MAX_USAGE, treaty) THEN skip
        ELSE LET amt == Amount(insurance_amounts, treaty, triple[2], triple[3])
             IN  IF Payable(amt)
                 THEN [Emit(acc, treaty, amt, y) EXCEPT
                          !.visited = Append(@, Visit(acc, ev, triple, y, TRUE))]
                 ELSE skip

RECURSIVE ApplyRule(_, _, _, _, _, _)
\* line 432: for (treaty, cnt, rate) in MAPPING[ev]; an exception ends the loop
ApplyRule(acc, ev, rule, insurance_amounts, MAX_USAGE, y) ==
    IF rule = <<>> \/ acc.error # "none" THEN acc
    ELSE ApplyRule(ApplyTriple(acc, ev, Head(rule), insurance_amounts, MAX_USAGE, y),
                   ev, Tail(rule), insurance_amounts, MAX_USAGE, y)

\* line 431: if ev and ev in MAPPING
Recognized(ev, MAPPING) == ev # "" /\ ev \in DOMAIN MAPPING

RECURSIVE ApplyEvents(_, _, _, _, _, _)
\* line 430: for ev in events; an exception ends the loop
ApplyEvents(acc, events, insurance_amounts, MAPPING, MAX_USAGE, y) ==
    IF events = <<>> \/ acc.error # "none" THEN acc
    ELSE LET ev == Head(events)
             next == IF Recognized(ev, MAPPING)
                     THEN ApplyRule(acc, ev, MAPPING[ev], insurance_amounts, MAX_USAGE, y)
                     ELSE acc
         IN  ApplyEvents(next, Tail(events), insurance_amounts, MAPPING, MAX_USAGE, y)

RECURSIVE Distinct(_)
\* the list without the later occurrences of a tag
Distinct(events) ==
    IF events = <<>> THEN <<>>
    ELSE LET front == Distinct(SubSeq(events, 1, Len(events) - 1))
             last == events[Len(events)]
         IN  IF \E i \in DOMAIN front : front[i] = last THEN front ELSE Append(front, last)

\* the events taken as a set: a repeated tag applied once
calc_payments_distinct(events, insurance_amounts, usage_counter, MAPPING, MAX_USAGE, y) ==
    ApplyEvents([total |-> 0, details |-> <<>>, usage_counter |-> usage_counter,
                 error |-> "none", visited |-> <<>>],
                Distinct(events), insurance_amounts, MAPPING, MAX_USAGE, y)

\* line 428-444
calc_payments(events, insurance_amounts, usage_counter, MAPPING, MAX_USAGE, y) ==
    ApplyEvents([total |-> 0, details |-> <<>>, usage_counter |-> usage_counter,
                 error |-> "none", visited |-> <<>>],
                events, insurance_amounts, MAPPING, MAX_USAGE, y)

-----------------------------------------------------------------------------
(* The per-year loop (line 476-495) *)

\* a call that did not run, because the call before it raised
NotRun(usage_counter) ==
    [total |-> 0, details |-> <<>>, usage_counter |-> usage_counter,
     error |-> "none", visited |-> <<>>]

\* one dict shared by both insurers' calls
YearIterationShared(events, amounts_s, amounts_k, counter_s, counter_k, MAPPING_S, MAPPING_K, y) ==
    LET rs == calc_payments(events, amounts_s, counter_s, MAPPING_S, MAX_USAGE_SAMSUNG, y)
        rk == IF rs.error = "none"
              THEN calc_payments(events, amounts_k, rs.usage_counter, MAPPING_K, MAX_USAGE_KB, y)
              ELSE NotRun(rs.usage_counter)
    IN  [s |-> [rs EXCEPT !.usage_counter = rk.usage_counter], k |-> rk]

\* line 486-493: the Samsung call, then the KB call, each on its own dict
YearIteration(events, amounts_s, amounts_k, counter_s, counter_k, MAPPING_S, MAPPING_K, y) ==
    LET rs == calc_payments(events, amounts_s, counter_s, MAPPING_S, MAX_USAGE_SAMSUNG, y)
        rk == IF rs.error = "none"
              THEN calc_payments(events, amounts_k, counter_k, MAPPING_K, MAX_USAGE_KB, y)
              ELSE NotRun(counter_k)
    IN  [s |-> rs, k |-> rk]

\* line 476-477: the state the loop starts from
FreshCounter == EmptyDict

\* a new dict handed to every year's call
CounterInFresh(usage_counter) == FreshCounter

\* line 486-487, 490-491: the dict handed to a year's call is the one the call of the
\* year before returned
CounterIn(usage_counter) == usage_counter

\* line 479: the next value of range(years[0], years[1] + 1), or the same at its end
NextYear(y, range) == IF y < range[2] THEN y + 1 ELSE y

\* line 479-495: one iteration of the loop, on the events selected for that year
YearLoop(lists, MAPPING_S, MAPPING_K) ==
    /\ pc = "loop"
    /\ \E events \in lists :
       \E it \in { YearIteration(events, insurance_amounts_samsung, insurance_amounts_kb,
                                   CounterIn(usage_counter_samsung),
                                   CounterIn(usage_counter_kb),
                                   MAPPING_S, MAPPING_K, year) } :
         LET raised == IF it.s.error # "none" THEN it.s.error ELSE it.k.error
         IN  /\ session_state' = Put(session_state, year, events)
             /\ usage_counter_samsung' = it.s.usage_counter
             /\ usage_counter_kb' = it.k.usage_counter
             /\ visited_samsung' = it.s.visited
             /\ visited_kb' = it.k.visited
             /\ error' = raised
             /\ IF raised # "none"
                THEN /\ pc' = "error"
                     /\ UNCHANGED <<year, all_results_samsung, all_results_kb>>
                ELSE /\ all_results_samsung' =
                            Append(all_results_samsung, <<year, it.s.total, it.s.details>>)
                     /\ all_results_kb' =
                            Append(all_results_kb, <<year, it.k.total, it.k.details>>)
                     /\ year' = NextYear(year, years)
                     /\ pc' = IF year < years[2] THEN "loop" ELSE "button"
    /\ UNCHANGED <<years, insurance_amounts_samsung, insurance_amounts_kb,
                   grand_total_s, grand_total_k, rows, total_amount>>

-----------------------------------------------------------------------------
(* The button (line 501-597) *)

None == <<>>

RECURSIVE FirstOfYear(_, _)
\* line 506: next((item for item in all_results if item[0] == year), None)
FirstOfYear(all_results, y) ==
    IF all_results = <<>> THEN None
    ELSE IF Head(all_results)[1] = y THEN Head(all_results)
    ELSE FirstOfYear(Tail(all_results), y)

\* line 508: (item[1], item[2]) if item else (0, [])
TotalOf(item) == IF item # None THEN item[2] ELSE 0
DetailsOf(item) == IF item # None THEN item[3] ELSE <<>>

\* line 512-526, 530-544: an insurer's rows of one year; KB's rows carry no year label
InsurerRows(y, insurer, details, labelled) ==
    IF details # <<>>
    THEN [idx \in 1..Len(details) |->
            [year |-> IF idx = 1 /\ labelled THEN y ELSE 0,
             insurer |-> IF idx = 1 THEN insurer ELSE "",
             treaty |-> details[idx][1],
             amount |-> details[idx][2],
             sum_of |-> 0]]
    ELSE << [year |-> IF labelled THEN y ELSE 0, insurer |-> insurer,
             treaty |-> "-", amount |-> 0, sum_of |-> 0] >>

\* line 548-553: the year's subtotal row
YearSumRow(y, total_s, total_k) ==
    [year |-> 0, insurer |-> "year_sum", treaty |-> "sum",
     amount |-> total_s + total_k, sum_of |-> y]

\* line 505-553: the body of the button's loop for one year
AggregateYear(acc, results_s, results_k, y) ==
    LET year_s == FirstOfYear(results_s, y)
        year_k == FirstOfYear(results_k, y)
    IN  [grand_total_s |-> acc.grand_total_s + TotalOf(year_s),
         grand_total_k |-> acc.grand_total_k + TotalOf(year_k),
         rows |-> acc.rows
                    \o InsurerRows(y, "samsung", DetailsOf(year_s), TRUE)
                    \o InsurerRows(y, "kb", DetailsOf(year_k), FALSE)
                    \o << YearSumRow(y, TotalOf(year_s), TotalOf(year_k)) >>]

RECURSIVE AggregateFrom(_, _, _, _, _)
\* line 505: for year in range(years[0], years[1] + 1)
AggregateFrom(acc, results_s, results_k, y, last) ==
    IF y > last THEN acc
    ELSE AggregateFrom(AggregateYear(acc, results_s, results_k, y),
                       results_s, results_k, y + 1, last)

\* line 502-553
Aggregate(results_s, results_k, range) ==
    AggregateFrom([grand_total_s |-> 0, grand_total_k |-> 0, rows |-> <<>>],
                  results_s, results_k, range[1], range[2])

\* line 562, 596: the combined grand total
CombinedTotal(total_s, total_k) == total_s + total_k

\* line 501: the button is pressed once the loop has run
ButtonPressed ==
    /\ pc = "button"
    /\ \E agg \in { Aggregate(all_results_samsung, all_results_kb, years) } :
           /\ grand_total_s' = agg.grand_total_s
           /\ grand_total_k' = agg.grand_total_k
           /\ rows' = agg.rows
           /\ total_amount' = CombinedTotal(agg.grand_total_s, agg.grand_total_k)
    /\ pc' = "done"
    /\ UNCHANGED <<years, year, insurance_amounts_samsung, insurance_amounts_kb,
                   usage_counter_samsung, usage_counter_kb, all_results_samsung,
                   all_results_kb, session_state, visited_samsung, visited_kb, error>>

-----------------------------------------------------------------------------
(* Inputs *)

\* the subscribed amounts typed into the form: the defaults with some replaced
With(defaults, changed) ==
    [t \in DOMAIN defaults |-> IF t \in DOMAIN changed THEN changed[t] ELSE defaults[t]]

SamsungAmounts ==
    { With(DEFAULT_AMOUNTS_SAMSUNG,
           [major_treatment |-> 100, direct_treatment |-> 1000, tertiary_direct |-> 100,
            premium_direct |-> 200, premium_class |-> 100, radiation_rider |-> 300,
            chemo_rider |-> 100, heavy_ion_rider |-> 100]),
      With(DEFAULT_AMOUNTS_SAMSUNG,
           [premium_direct |-> 200, radiation_rider |-> -100]) }

KBAmounts ==
    { With(DEFAULT_AMOUNTS_KB,
           [kb_major |-> 1, noncovered_major_II |-> 500, noncovered_chemo_II |-> 100,
            radiation_rider |-> 300, chemo_rider |-> 100, heavy_ion_rider |-> 100]),
      With(DEFAULT_AMOUNTS_KB, [kb_major |-> 5]),
      With(DEFAULT_AMOUNTS_KB, [kb_major |-> 3, radiation_rider |-> 300]) }

\* the first years of the slider's range that the runs start from
StartYears == {SliderMin, SliderMax - 1}

\* the slider's ranges of at most span years
Ranges(span) ==
    { <<lo, hi>> \in StartYears \X (SliderMin..SliderMax) : lo <= hi /\ hi - lo + 1 <= span }

\* the event lists a year may select: "unlisted" is in neither rule table, "" is the
\* empty tag; a list may repeat a tag
EventLists ==
    { <<>>, <<"surgery">>, <<"radiation">>, <<"icu">>, <<"immune_noncovered">>,
      <<"robot_surgery">>, <<"unlisted">>, <<"heavy_ion">>,
      <<"targeted_noncovered", "robot_surgery">>,
      <<"unlisted", "heavy_ion", "heavy_ion">>,
      <<"icu", "icu">>,
      <<"", "surgery", "imrt">>,
      <<"immune_covered", "chemo", "icu">> }

InitWith(ranges, amounts_s, amounts_k) ==
    /\ years \in ranges
    /\ year = years[1]
    /\ pc = "loop"
    /\ insurance_amounts_samsung \in amounts_s
    /\ insurance_amounts_kb \in amounts_k
    /\ usage_counter_samsung = FreshCounter
    /\ usage_counter_kb = FreshCounter
    /\ all_results_samsung = <<>>
    /\ all_results_kb = <<>>
    /\ session_state = EmptyDict
    /\ visited_samsung = <<>>
    /\ visited_kb = <<>>
    /\ grand_total_s = 0
    /\ grand_total_k = 0
    /\ rows = <<>>
    /\ total_amount = 0
    /\ error = "none"

Init == InitWith(Ranges(MaxSpan), SamsungAmounts, KBAmounts)

Next ==
    \/ YearLoop(EventLists, MAPPING_SAMSUNG, MAPPING_KB)
    \/ ButtonPressed

Spec == Init /\ [][Next]_vars

-----------------------------------------------------------------------------
(* Long runs: the same loop over LongYears years, on lists heavy enough to reach *)
(* every cap of the clauses the rule tables name                                 *)

Heavy ==
    <<"surgery", "radiation", "chemo", "hormone", "heavy_ion", "imrt", "proton",
      "stereotactic", "robot_surgery", "targeted_covered", "targeted_noncovered",
      "immune_covered", "immune_noncovered", "icu",
      "robot_surgery", "targeted_noncovered", "immune_noncovered",
      "robot_surgery", "targeted_noncovered", "immune_noncovered">>

LongLists == { <<"surgery">>, Heavy }

LongSamsungAmounts ==
    { With(DEFAULT_AMOUNTS_SAMSUNG,
           [major_treatment |-> 100, direct_treatment |-> 1000, tertiary_direct |-> 100,
            premium_direct |-> 200, premium_class |-> 100, radiation_rider |-> 300,
            chemo_rider |-> 100, heavy_ion_rider |-> 100]) }

LongKBAmounts ==
    { With(DEFAULT_AMOUNTS_KB,
           [kb_major |-> 3, noncovered_major_II |-> 500, noncovered_chemo_II |-> 100,
            radiation_rider |-> 300, chemo_rider |-> 100, heavy_ion_rider |-> 100]) }

InitLong == InitWith({ <<SliderMin, LongYears>> }, LongSamsungAmounts, LongKBAmounts)

NextLong ==
    \/ YearLoop(LongLists, MAPPING_SAMSUNG, MAPPING_KB)
    \/ ButtonPressed

SpecLong == InitLong /\ [][NextLong]_vars

-----------------------------------------------------------------------------
(* Runs of calc_payments on a rule table one of whose rules names a clause that *)
(* no catalog holds (neither a subscribed amount nor a max-usage entry)         *)

MAPPING_UNLISTED_CLAUSE ==
    [ surgery |-> << <<"kb_major", 1, Full>>, <<"unlisted_clause", 1, Full>>,
                     <<"noncovered_major_II", 1, Full>> >>,
      robot_surgery |-> << <<"kb_major", 1, Full>>, <<"noncovered_major_II", 1, Full>> >>,
      icu |-> << <<"kb_major", 1, Half>> >> ]

NextUnlisted ==
    \/ YearLoop(EventLists, MAPPING_SAMSUNG, MAPPING_UNLISTED_CLAUSE)
    \/ ButtonPressed

SpecUnlisted == Init /\ [][NextUnlisted]_vars

-----------------------------------------------------------------------------
(* What the claims speak of *)

Insurers == {"samsung", "kb"}

ResultsOf(ins) == IF ins = "samsung" THEN all_results_samsung ELSE all_results_kb
CounterOf(ins) == IF ins = "samsung" THEN usage_counter_samsung ELSE usage_counter_kb
VisitedOf(ins) == IF ins = "samsung" THEN visited_samsung ELSE visited_kb
AmountsOf(ins) == IF ins = "samsung" THEN insurance_amounts_samsung ELSE insurance_amounts_kb
MappingOf(ins) == IF ins = "samsung" THEN MAPPING_SAMSUNG ELSE MAPPING_KB
MaxUsageOf(ins) == IF ins = "samsung" THEN MAX_USAGE_SAMSUNG ELSE MAX_USAGE_KB

\* the number of line items of clause c in one year's details
CountItems(details, c) == Cardinality({ i \in DOMAIN details : details[i][1] = c })

RECURSIVE SumAmounts(_)
\* the sum of the amounts of a year's line items
SumAmounts(details) ==
    IF details = <<>> THEN 0 ELSE Head(details)[2] + SumAmounts(Tail(details))

RECURSIVE EmittedIn(_, _, _)
\* the number of line items of clause c in the first n years of the results
EmittedIn(all_results, c, n) ==
    IF n = 0 THEN 0
    ELSE EmittedIn(all_results, c, n - 1) + CountItems(all_results[n][3], c)

RECURSIVE SumTotals(_)
SumTotals(all_results) ==
    IF all_results = <<>> THEN 0 ELSE Head(all_results)[2] + SumTotals(Tail(all_results))

RECURSIVE SumAllItems(_)
SumAllItems(all_results) ==
    IF all_results = <<>> THEN 0
    ELSE SumAmounts(Head(all_results)[3]) + SumAllItems(Tail(all_results))

\* the year the loop processed last, and the events it had
Processed == Len(all_results_samsung)
LastYear == all_results_samsung[Processed][1]
LastEvents == session_state[LastYear]
EventsOfYear(y) == session_state[y]

\* the integer nearest to n / d (d > 0), the even one of the two when n / d is half-way
NearestEven(n, d) ==
    CHOOSE m \in { n \div d, n \div d + 1 } :
        LET away == IF n - m * d >= 0 THEN n - m * d ELSE m * d - n
        IN  2 * away < d \/ (2 * away = d /\ m % 2 = 0)

-----------------------------------------------------------------------------
(* C1: lifetime cap.  For each insurer and every clause of its catalog, the clause's  *)
(* lifetime count and the number of line items emitted for it over the whole run are *)
(* at most MAX_USAGE of the clause, and a year that starts with the count at the cap *)
(* emits no line item for the clause.                                                *)
C1_LifetimeCap ==
    \A ins \in Insurers : \A c \in DOMAIN MaxUsageOf(ins) :
        LET results == ResultsOf(ins)
            cap == MaxUsageOf(ins)[c]
        IN  /\ Get(CounterOf(ins), LifeKey(c)) <= cap
            /\ EmittedIn(results, c, Len(results)) <= cap
            /\ \A i \in 1..Len(results) :
                   EmittedIn(results, c, i - 1) = cap => CountItems(results[i][3], c) = 0

\* surgery selected in year 11 with the direct-treatment clause at its cap of 10 since
\* year 10: no line item for it; the caps of 50 and 80 are reached as well
C1_Witness ==
    /\ Processed = SliderMax + 1
    /\ LastEvents = <<"surgery">>
    /\ Get(usage_counter_samsung, LifeKey("direct_treatment")) = MAX_USAGE_SAMSUNG["direct_treatment"]
    /\ EmittedIn(all_results_samsung, "direct_treatment", SliderMax) = MAX_USAGE_SAMSUNG["direct_treatment"]
    /\ CountItems(all_results_samsung[Processed][3], "direct_treatment") = 0
    /\ Get(usage_counter_samsung, LifeKey("major_treatment")) = MAX_USAGE_SAMSUNG["major_treatment"]
    /\ Get(usage_counter_samsung, LifeKey("premium_direct")) = MAX_USAGE_SAMSUNG["premium_direct"]
    /\ Get(usage_counter_kb, LifeKey("kb_major")) = MAX_USAGE_KB["kb_major"]
    /\ CountItems(all_results_kb[Processed][3], "kb_major") = 0

-----------------------------------------------------------------------------
(* C2: year-exclusivity.  For each year-exclusive clause and every year, the count of *)
(* (year, clause) is at most 1, a year's details hold at most one line item of the    *)
(* clause, and the triple that pays is the first triple of the clause the call meets. *)
C2_YearExclusive ==
    \A ins \in Insurers : \A c \in YEAR_EXCLUSIVE :
        LET results == ResultsOf(ins)
            visited == VisitedOf(ins)
        IN  /\ \A y \in SliderMin..SliderMax : Get(CounterOf(ins), YearKey(y, c)) <= 1
            /\ \A i \in 1..Len(results) : CountItems(results[i][3], c) <= 1
            /\ \A j \in DOMAIN visited :
                   visited[j].treaty = c /\ visited[j].paid
                       => \A i \in 1..(j - 1) : visited[i].treaty # c

\* scenario C: two events of one year trigger KB's year-exclusive clause, subscribed at
\* 500; the first pays 500 and the second is skipped
C2_Witness ==
    /\ Processed >= 1
    /\ LastEvents = <<"targeted_noncovered", "robot_surgery">>
    /\ insurance_amounts_kb["noncovered_major_II"] = 500
    /\ CountItems(all_results_kb[Processed][3], "noncovered_major_II") = 1
    /\ \E j \in DOMAIN all_results_kb[Processed][3] :
           all_results_kb[Processed][3][j] = <<"noncovered_major_II", 500>>
    /\ \E i, j \in DOMAIN visited_kb :
           /\ i < j
           /\ visited_kb[i].treaty = "noncovered_major_II" /\ visited_kb[i].paid
           /\ visited_kb[i].ev = "targeted_noncovered"
           /\ visited_kb[j].treaty = "noncovered_major_II" /\ ~visited_kb[j].paid
           /\ visited_kb[j].ev = "robot_surgery"

-----------------------------------------------------------------------------
(* C3: amount formula.  Every line item of a year is produced by a triple of a tag in *)
(* that year's event list, its amount is the subscribed amount times the multiplier   *)
(* times the rate, rounded, and is above 0; a clause subscribed at 0 or less has no   *)
(* line item.                                                                         *)
C3_AmountFormula ==
    \A ins \in Insurers : \A i \in 1..Len(ResultsOf(ins)) :
        LET events == EventsOfYear(ResultsOf(ins)[i][1])
            details == ResultsOf(ins)[i][3]
            MAPPING == MappingOf(ins)
        IN  \A j \in DOMAIN details :
                LET c == details[j][1]
                    amt == details[j][2]
                IN  /\ amt > 0
                    /\ AmountsOf(ins)[c] > 0
                    /\ \E e \in DOMAIN events :
                           /\ events[e] \in DOMAIN MAPPING
                           /\ \E t \in DOMAIN MAPPING[events[e]] :
                                  LET triple == MAPPING[events[e]][t]
                                  IN  /\ triple[1] = c
                                      /\ amt = NearestEven(AmountsOf(ins)[c] * triple[2] * triple[3][1],
                                                           triple[3][2])

\* a line item of multiplier 4 (200 * 4 = 800), one of rate 0.5 that is rounded
\* (3 * 0.5 -> 2), and a clause subscribed at 0 that a selected event names
C3_Witness ==
    /\ \E i \in 1..Len(all_results_samsung) :
           /\ \E j \in DOMAIN all_results_samsung[i][3] :
                  all_results_samsung[i][3][j] = <<"premium_direct", 800>>
           /\ insurance_amounts_samsung["major_treatment"] = 0
           /\ EventsOfYear(all_results_samsung[i][1]) = <<"immune_noncovered">>
    /\ \E i \in 1..Len(all_results_kb) :
           /\ EventsOfYear(all_results_kb[i][1]) = <<"icu">>
           /\ insurance_amounts_kb["kb_major"] = 3
           /\ all_results_kb[i][3] = << <<"kb_major", 2>> >>

-----------------------------------------------------------------------------
(* C4: total consistency.  A year's total is the sum of its line items' amounts; once *)
(* the button has run, an insurer's grand total is the sum of its year totals, which  *)
(* is the sum of all its line items' amounts, each year's subtotal row is the sum of  *)
(* the two insurers' totals of that year, and the combined total is the sum of the    *)
(* two grand totals.                                                                  *)
C4_TotalConsistency ==
    /\ \A ins \in Insurers : \A i \in 1..Len(ResultsOf(ins)) :
           ResultsOf(ins)[i][2] = SumAmounts(ResultsOf(ins)[i][3])
    /\ pc = "done" =>
           /\ grand_total_s = SumTotals(all_results_samsung)
           /\ grand_total_s = SumAllItems(all_results_samsung)
           /\ grand_total_k = SumTotals(all_results_kb)
           /\ grand_total_k = SumAllItems(all_results_kb)
           /\ total_amount = grand_total_s + grand_total_k
           /\ \A i \in 1..Processed :
                  \E r \in DOMAIN rows :
                      /\ rows[r].insurer = "year_sum"
                      /\ rows[r].sum_of = all_results_samsung[i][1]
                      /\ rows[r].amount = all_results_samsung[i][2] + all_results_kb[i][2]

\* two years, both insurers paying in both, and the button pressed
C4_Witness ==
    /\ pc = "done"
    /\ Processed = 2
    /\ \A ins \in Insurers : \A i \in 1..2 : Len(ResultsOf(ins)[i][3]) >= 2
    /\ grand_total_s > 0 /\ grand_total_k > 0 /\ grand_total_s # grand_total_k
    /\ total_amount = grand_total_s + grand_total_k

-----------------------------------------------------------------------------
(* The run replayed from the selections alone: the state the loop is in after the  *)
(* first n years of the range, computed from the fresh counters, the events        *)
(* session_state holds for those n years, and the given subscribed amounts         *)

RECURSIVE Replay(_, _, _)
Replay(n, amounts_s, amounts_k) ==
    IF n = 0
    THEN [counter_s |-> FreshCounter, counter_k |-> FreshCounter,
          results_s |-> <<>>, results_k |-> <<>>]
    ELSE LET prev == Replay(n - 1, amounts_s, amounts_k)
             y == years[1] + n - 1
             it == YearIteration(EventsOfYear(y), amounts_s, amounts_k,
                                 prev.counter_s, prev.counter_k,
                                 MAPPING_SAMSUNG, MAPPING_KB, y)
         IN  [counter_s |-> it.s.usage_counter, counter_k |-> it.k.usage_counter,
              results_s |-> Append(prev.results_s, <<y, it.s.total, it.s.details>>),
              results_k |-> Append(prev.results_k, <<y, it.k.total, it.k.details>>)]

-----------------------------------------------------------------------------
(* C5: forward-only usage state.  The years of the results are the years of the    *)
(* range in increasing order; the results of the first k years are those of a run  *)
(* over the events of these k years alone, whatever was selected for later years,  *)
(* with each year's call starting from the counters the year before left; and the  *)
(* counters are those that run leaves.                                             *)
C5_ForwardOnly ==
    /\ \A i \in 1..Processed :
           /\ all_results_samsung[i][1] = years[1] + i - 1
           /\ all_results_kb[i][1] = years[1] + i - 1
    /\ Len(all_results_kb) = Processed
    /\ \A k \in 0..Processed :
           LET run == Replay(k, insurance_amounts_samsung, insurance_amounts_kb)
           IN  /\ SubSeq(all_results_samsung, 1, k) = run.results_s
               /\ SubSeq(all_results_kb, 1, k) = run.results_k
               /\ k = Processed => /\ usage_counter_samsung = run.counter_s
                                   /\ usage_counter_kb = run.counter_k

\* the radiation rider (cap 1) triggered in two years in a row: paid in the first,
\* and the second year finds the cap used up
C5_Witness ==
    /\ Processed = 2
    /\ EventsOfYear(years[1]) = <<"heavy_ion">>
    /\ EventsOfYear(years[1] + 1) = <<"", "surgery", "imrt">>
    /\ CountItems(all_results_samsung[1][3], "radiation_rider") = 1
    /\ CountItems(all_results_samsung[2][3], "radiation_rider") = 0
    /\ CountItems(all_results_samsung[2][3], "premium_direct") = 1
    /\ Get(usage_counter_samsung, LifeKey("radiation_rider")) = 1

-----------------------------------------------------------------------------
(* C6: insurer independence.  For the selections made, Samsung's results and       *)
(* counter are the same whatever the KB subscribed amounts are, and KB's results   *)
(* and counter are the same whatever the Samsung subscribed amounts are; so a      *)
(* payment of a clause name both catalogs hold uses up only the payer's cap.       *)
C6_InsurerIndependence ==
    /\ \A other_k \in KBAmounts :
           LET run == Replay(Processed, insurance_amounts_samsung, other_k)
           IN  /\ run.results_s = all_results_samsung
               /\ run.counter_s = usage_counter_samsung
    /\ \A other_s \in SamsungAmounts :
           LET run == Replay(Processed, other_s, insurance_amounts_kb)
           IN  /\ run.results_k = all_results_kb
               /\ run.counter_k = usage_counter_kb

\* both insurers pay the radiation rider (cap 1 in both catalogs) in the same year
C6_Witness ==
    /\ Processed >= 1
    /\ LastEvents = <<"heavy_ion">>
    /\ CountItems(all_results_samsung[Processed][3], "radiation_rider") = 1
    /\ CountItems(all_results_kb[Processed][3], "radiation_rider") = 1
    /\ Get(usage_counter_samsung, LifeKey("radiation_rider")) = 1
    /\ Get(usage_counter_kb, LifeKey("radiation_rider")) = 1

-----------------------------------------------------------------------------
(* C7: an unknown clause reference is never fatal.  A rule that names a clause no *)
(* catalog holds raises no error and gives the clause no line item.               *)
C7_UnlistedClauseNotFatal ==
    /\ error = "none"
    /\ pc # "error"
    /\ \A i \in 1..Len(all_results_kb) : CountItems(all_results_kb[i][3], "unlisted_clause") = 0

-----------------------------------------------------------------------------
(* C8: round-half-up.  A year whose only event is icu (rate 0.5), with KB's major *)
(* clause subscribed at an odd amount a >= 1, pays (a + 1) / 2 for it.            *)
C8_RoundHalfUp ==
    \A i \in 1..Len(all_results_kb) :
        LET a == insurance_amounts_kb["kb_major"]
        IN  (EventsOfYear(all_results_kb[i][1]) = <<"icu">> /\ a >= 1 /\ a % 2 = 1)
                => all_results_kb[i][3] = << <<"kb_major", (a + 1) \div 2>> >>

-----------------------------------------------------------------------------
(* C9: scenario D as claimed.  With the premium clause subscribed at a > 0, a     *)
(* first year whose only event is immune_noncovered has four line items of the    *)
(* premium clause, of amount a each.                                              *)
C9_FourLineItems ==
    LET a == insurance_amounts_samsung["premium_direct"]
    IN  (Processed >= 1 /\ EventsOfYear(years[1]) = <<"immune_noncovered">> /\ a > 0)
            => LET details == all_results_samsung[1][3]
               IN  /\ CountItems(details, "premium_direct") = 4
                   /\ \A j \in DOMAIN details :
                          details[j][1] = "premium_direct" => details[j][2] = a

(* C9, amended: the premium clause has one line item, of amount 4a, which adds 4a *)
(* to the year's total and counts as one use of the clause.                       *)
C9_OneLineItemOfFourfold ==
    LET a == insurance_amounts_samsung["premium_direct"]
    IN  (Processed >= 1 /\ EventsOfYear(years[1]) = <<"immune_noncovered">> /\ a > 0)
            => LET details == all_results_samsung[1][3]
                   others == SelectSeq(details, LAMBDA item : item[1] # "premium_direct")
               IN  /\ CountItems(details, "premium_direct") = 1
                   /\ \E j \in DOMAIN details : details[j] = <<"premium_direct", 4 * a>>
                   /\ all_results_samsung[1][2] = SumAmounts(others) + 4 * a
                   /\ Processed = 1 =>
                          Get(usage_counter_samsung, LifeKey("premium_direct")) = 1

\* a = 200: one line item of 800
C9_Witness ==
    /\ Processed = 1
    /\ EventsOfYear(years[1]) = <<"immune_noncovered">>
    /\ insurance_amounts_samsung["premium_direct"] = 200
    /\ insurance_amounts_samsung["direct_treatment"] = 1000
    /\ \E j \in DOMAIN all_results_samsung[1][3] :
           all_results_samsung[1][3][j] = <<"premium_direct", 800>>
    /\ all_results_samsung[1][2] >= 800

-----------------------------------------------------------------------------
(* C10: exact emission condition.  The call goes through every triple of every    *)
(* event of the list that its rule table holds, in list order and table order,    *)
(* and through nothing else; a triple pays if and only if its amount is above 0,  *)
(* the clause's lifetime count at that moment is below its cap and, for a         *)
(* year-exclusive clause, its count for the year is 0; the year's line items are  *)
(* the triples that paid, in that order; and no error is raised.                  *)

RECURSIVE ExpectedTriples(_, _)
ExpectedTriples(events, MAPPING) ==
    IF events = <<>> THEN <<>>
    ELSE LET ev == Head(events)
             mine == IF ev \in DOMAIN MAPPING
                     THEN [t \in DOMAIN MAPPING[ev] |->
                              <<ev, MAPPING[ev][t][1], MAPPING[ev][t][2], MAPPING[ev][t][3]>>]
                     ELSE <<>>
         IN  mine \o ExpectedTriples(Tail(events), MAPPING)

ExpectedAmount(ins, v) == NearestEven(AmountsOf(ins)[v.treaty] * v.cnt * v.rate[1], v.rate[2])

RECURSIVE PaidItems(_, _)
PaidItems(ins, visited) ==
    IF visited = <<>> THEN <<>>
    ELSE (IF Head(visited).paid
          THEN << <<Head(visited).treaty, ExpectedAmount(ins, Head(visited))>> >>
          ELSE <<>>) \o PaidItems(ins, Tail(visited))

C10_EmissionCondition ==
    /\ error = "none"
    /\ Processed >= 1 =>
         \A ins \in Insurers :
             LET visited == VisitedOf(ins)
             IN  /\ [j \in DOMAIN visited |->
                        <<visited[j].ev, visited[j].treaty, visited[j].cnt, visited[j].rate>>]
                      = ExpectedTriples(LastEvents, MappingOf(ins))
                 /\ \A j \in DOMAIN visited :
                        LET v == visited[j]
                        IN  v.paid <=>
                               /\ ExpectedAmount(ins, v) > 0
                               /\ v.life < MaxUsageOf(ins)[v.treaty]
                               /\ v.treaty \in YEAR_EXCLUSIVE => v.inyear = 0
                 /\ ResultsOf(ins)[Processed][3] = PaidItems(ins, visited)

\* one list with a tag no table holds and a repeated tag: Samsung pays, skips a clause
\* already paid this year and skips a clause at its cap; KB skips a clause of amount 0
C10_Witness ==
    /\ Processed >= 1
    /\ LastEvents = <<"unlisted", "heavy_ion", "heavy_ion">>
    /\ \E j \in DOMAIN visited_samsung : visited_samsung[j].paid
    /\ \E j \in DOMAIN visited_samsung :
           LET v == visited_samsung[j]
           IN  ~v.paid /\ v.treaty \in YEAR_EXCLUSIVE /\ v.inyear >= 1
                       /\ v.life < MAX_USAGE_SAMSUNG[v.treaty]
    /\ \E j \in DOMAIN visited_samsung :
           LET v == visited_samsung[j]
           IN  ~v.paid /\ v.treaty \notin YEAR_EXCLUSIVE /\ v.life >= MAX_USAGE_SAMSUNG[v.treaty]
    /\ \E j \in DOMAIN visited_kb :
           LET v == visited_kb[j]
           IN  ~v.paid /\ v.life < MAX_USAGE_KB[v.treaty] /\ v.inyear = 0
                       /\ insurance_amounts_kb[v.treaty] <= 0
    /\ \E j \in DOMAIN visited_kb : visited_kb[j].paid

-----------------------------------------------------------------------------
(* C11: duplicate tags are reprocessed.  For a tag of the rule table that the     *)
(* year's list holds n >= 2 times, the call goes through each triple of its rule  *)
(* n times, and each pass pays or not on the counts it finds.  So a clause that   *)
(* is not year-exclusive, whose triple computes an amount above 0 and that had at *)
(* least two uses left when the year began gets at least two line items, exactly  *)
(* n when no other tag of the list names it and n uses were left, and its         *)
(* lifetime count grows by the number of its line items; a year-exclusive clause  *)
(* gets one line item at most, and one when its amount is above 0 and a use was   *)
(* left.                                                                          *)

\* how many times the list holds the tag
Occurrences(events, ev) == Cardinality({ i \in DOMAIN events : events[i] = ev })

\* the clause's lifetime count when the year's call began: what its first pass found
CountAtStart(visited, c) ==
    LET first == CHOOSE j \in DOMAIN visited :
                     /\ visited[j].treaty = c
                     /\ \A i \in 1..(j - 1) : visited[i].treaty # c
    IN  visited[first].life

\* the tags of the list, other than ev, whose rule names the clause
OtherTriggers(events, MAPPING, ev, c) ==
    { i \in DOMAIN events :
        /\ events[i] # ev
        /\ events[i] \in DOMAIN MAPPING
        /\ \E t \in DOMAIN MAPPING[events[i]] : MAPPING[events[i]][t][1] = c }

C11_DuplicateTags ==
    Processed >= 1 =>
      \A ins \in Insurers :
        LET MAPPING == MappingOf(ins)
            visited == VisitedOf(ins)
            details == ResultsOf(ins)[Processed][3]
        IN  \A e \in { LastEvents[i] : i \in DOMAIN LastEvents } \cap DOMAIN MAPPING :
              LET n == Occurrences(LastEvents, e)
              IN  n >= 2 =>
                    \A t \in DOMAIN MAPPING[e] :
                      LET c == MAPPING[e][t][1]
                          passes == { j \in DOMAIN visited :
                                        visited[j].ev = e /\ visited[j].treaty = c }
                          amt == NearestEven(AmountsOf(ins)[c] * MAPPING[e][t][2] * MAPPING[e][t][3][1],
                                             MAPPING[e][t][3][2])
                          left == MaxUsageOf(ins)[c] - CountAtStart(visited, c)
                          items == CountItems(details, c)
                      IN  /\ Cardinality(passes) = n
                          /\ Get(CounterOf(ins), LifeKey(c)) = CountAtStart(visited, c) + items
                          /\ (c \notin YEAR_EXCLUSIVE /\ amt > 0 /\ left >= 2) => items >= 2
                          /\ (c \notin YEAR_EXCLUSIVE /\ amt > 0 /\ left >= n
                                /\ OtherTriggers(LastEvents, MAPPING, e, c) = {}) => items = n
                          /\ c \in YEAR_EXCLUSIVE => items <= 1
                          /\ (c \in YEAR_EXCLUSIVE /\ amt > 0 /\ left >= 1) => items = 1

\* heavy_ion selected twice in one year: KB's major clause (cap 50, amount above 0) is
\* paid twice and its count is 2; Samsung's direct-treatment clause (year-exclusive)
\* is paid once
C11_Witness ==
    /\ Processed = 1
    /\ LastEvents = <<"unlisted", "heavy_ion", "heavy_ion">>
    /\ insurance_amounts_kb["kb_major"] = 3
    /\ all_results_kb[1][3] =
           << <<"kb_major", 3>>, <<"radiation_rider", 300>>, <<"kb_major", 3>> >>
    /\ Get(usage_counter_kb, LifeKey("kb_major")) = 2
    /\ insurance_amounts_samsung["direct_treatment"] = 1000
    /\ CountItems(all_results_samsung[1][3], "direct_treatment") = 1
    /\ Get(usage_counter_samsung, LifeKey("direct_treatment")) = 1

-----------------------------------------------------------------------------
(* C12: the counters track the emitted line items exactly.  A clause's lifetime   *)
(* count is the number of its line items so far and its count for a year is the   *)
(* number of its line items of that year; the counter holds no other key, so a    *)
(* clause that was never paid has used nothing.  Within a call, a pass that pays  *)
(* adds exactly 1 to both counts of its clause, whatever its multiplier, and a    *)
(* pass that does not pay leaves them as they were; the year's line items and     *)
(* total come from the passes that paid alone.                                    *)

\* the entry of the results for year y, or None
ResultOfYear(all_results, y) == FirstOfYear(all_results, y)

\* the passes of the call after pass j that are about the same clause
LaterPasses(visited, j) ==
    { k \in DOMAIN visited : k > j /\ visited[k].treaty = visited[j].treaty }

\* 1 for a pass that paid, 0 for one that did not
Added(v) == IF v.paid THEN 1 ELSE 0

C12_CountersTrackItems ==
    \A ins \in Insurers :
        LET counter == CounterOf(ins)
            results == ResultsOf(ins)
            visited == VisitedOf(ins)
        IN  /\ \A c \in DOMAIN MaxUsageOf(ins) :
                   /\ Get(counter, LifeKey(c)) = EmittedIn(results, c, Len(results))
                   /\ \A i \in 1..Len(results) :
                          Get(counter, YearKey(results[i][1], c)) = CountItems(results[i][3], c)
            /\ \A key \in DOMAIN counter :
                   /\ counter[key] >= 1
                   /\ key[2] \in DOMAIN MaxUsageOf(ins)
                   /\ key[1] # 0 => ResultOfYear(results, key[1]) # None
            /\ Processed >= 1 =>
                   /\ \A j \in DOMAIN visited :
                          LET v == visited[j]
                              later == LaterPasses(visited, j)
                          IN  IF later = {}
                              THEN /\ Get(counter, LifeKey(v.treaty)) = v.life + Added(v)
                                   /\ Get(counter, YearKey(LastYear, v.treaty)) = v.inyear + Added(v)
                              ELSE LET next == visited[CHOOSE k \in later : \A m \in later : k <= m]
                                   IN  /\ next.life = v.life + Added(v)
                                       /\ next.inyear = v.inyear + Added(v)
                   /\ Len(results[Processed][3]) =
                          Cardinality({ j \in DOMAIN visited : visited[j].paid })
                   /\ results[Processed][2] = SumAmounts(PaidItems(ins, visited))

\* one year, immune_noncovered alone: the premium clause is paid 800 through a triple
\* of multiplier 4 and counts 1 use; the major clause, subscribed at 0, is gone through
\* and has no key in the counter; with heavy_ion twice, KB's radiation rider is paid
\* once and the pass that finds its cap reached changes nothing
C12_Witness ==
    /\ Processed = 2
    /\ EventsOfYear(years[1]) = <<"immune_noncovered">>
    /\ insurance_amounts_samsung["major_treatment"] = 0
    /\ all_results_samsung[1][3] = << <<"premium_direct", 800>> >>
    /\ Get(usage_counter_samsung, LifeKey("premium_direct")) = 1
    /\ Get(usage_counter_samsung, YearKey(years[1], "premium_direct")) = 1
    /\ LifeKey("major_treatment") \notin DOMAIN usage_counter_samsung
    /\ LastEvents = <<"unlisted", "heavy_ion", "heavy_ion">>
    /\ \E j \in DOMAIN visited_kb :
           /\ visited_kb[j].treaty = "radiation_rider"
           /\ ~visited_kb[j].paid
           /\ visited_kb[j].life = MAX_USAGE_KB["radiation_rider"]
    /\ Get(usage_counter_kb, LifeKey("radiation_rider")) = 1
    /\ usage_counter_samsung = [key \in { LifeKey("premium_direct"),
                                          YearKey(years[1], "premium_direct") } |-> 1]

====
